---- MODULE Spec2Model ----
(***************************************************************************)
(* Model of class_proxy.py: the proxy-class factory (wrap_with and its     *)
(* cache), the member resolution it performs over the two classes'         *)
(* __mro__, and the forwarding descriptor _proxied_value with the          *)
(* identity-keyed side tables of _instance_wrapper.                        *)
(*                                                                         *)
(* Three specifications:                                                   *)
(*   SpecFactory  wrap_with / reset_proxy_cache over every pair of classes *)
(*                of the class universe;                                   *)
(*   Spec         one synthesized class and its instances: construction,   *)
(*                attribute get / set / delete through the descriptors,    *)
(*                and release of instances (after which CPython may hand   *)
(*                the same id() out again);                                *)
(*   SpecClass    the same class read and deleted from directly, next to   *)
(*                one instance of it.                                      *)
(***************************************************************************)
EXTENDS Integers, Sequences, FiniteSets, TLC

VARIABLES
    wrapped_class,      \* the wrapped class handed to wrap_with
    proxy_class,        \* the proxy class handed to wrap_with
    PROXY_CACHE,        \* class_proxy.PROXY_CACHE: key -> index of the type object
    types,              \* every type object _create_raw_wrapper has returned
    calls,              \* the caller's log: wrap_with results and resets, in order
    class_deleted,      \* names the caller has deleted from the synthesized class
    live,               \* the proxy instances that exist: id -> the object each was built from
    _wrapped_objects,   \* _instance_wrapper._wrapped_objects: id -> wrapped object
    _states,            \* _instance_wrapper._states: id -> {name: value}
    proxy_inited,       \* id()s of live instances on which proxy_init has run
    wrapped_attrs,      \* the wrapped objects' own instance attributes
    outcome             \* how the most recent call ended

vars == <<wrapped_class, proxy_class, PROXY_CACHE, types, calls, class_deleted, live,
          _wrapped_objects, _states, proxy_inited, wrapped_attrs, outcome>>

(***************************************************************************)
(* Bounds                                                                  *)
(***************************************************************************)
MaxCalls == 4       \* calls of wrap_with / reset_proxy_cache in one run
MaxIds == 2         \* distinct id() values the allocator hands to proxy instances

(***************************************************************************)
(* The class universe: the classes of test_class_proxy.py (Base,           *)
(* BaseProxy), object and int, a subclass of Base, and a diamond-free      *)
(* multiple-inheritance family L(X, A), R(X, B).                           *)
(***************************************************************************)
Classes == {"object", "int", "Base", "BaseProxy", "Sub", "X", "A", "B", "L", "R"}

\* cls.__mro__, most-derived first, as Python's C3 linearization gives it.
mro(cls) ==
    CASE cls = "object"    -> <<"object">>
      [] cls = "int"       -> <<"int", "object">>
      [] cls = "Base"      -> <<"Base", "object">>
      [] cls = "BaseProxy" -> <<"BaseProxy", "object">>
      [] cls = "Sub"       -> <<"Sub", "Base", "object">>
      [] cls = "X"         -> <<"X", "object">>
      [] cls = "A"         -> <<"A", "object">>
      [] cls = "B"         -> <<"B", "object">>
      [] cls = "L"         -> <<"L", "X", "A", "object">>
      [] cls = "R"         -> <<"R", "X", "B", "object">>

\* Values. Every value is a record of the same shape.
Val(n) == [kind |-> "val", cls |-> "", name |-> "", v |-> n]
Func(c, n) == [kind |-> "func", cls |-> c, name |-> n, v |-> 0]
Slot(c, n) == [kind |-> "slot", cls |-> c, name |-> n, v |-> 0]
Obj(sort, i) == [kind |-> sort, cls |-> "", name |-> "", v |-> i]
None == [kind |-> "None", cls |-> "", name |-> "", v |-> 0]

\* What a failed lookup yields in place of a value (the lookup raises).
Missing == [kind |-> "missing", cls |-> "", name |-> "", v |-> 0]

\* class _deleted: the tombstone.
_deleted == [kind |-> "class", cls |-> "_deleted", name |-> "", v |-> 0]

\* The names a class statement always puts in the class namespace.
ClassStmt(c) == ("__module__" :> Val(100)) @@ ("__doc__" :> None)

\* The members each class of the universe declares itself.
Declared ==
  [cls \in Classes |->
    CASE cls = "object" ->
            ("__init__" :> Slot("object", "__init__"))
         @@ ("__new__" :> Slot("object", "__new__"))
         @@ ("__getattribute__" :> Slot("object", "__getattribute__"))
         @@ ("__setattr__" :> Slot("object", "__setattr__"))
         @@ ("__delattr__" :> Slot("object", "__delattr__"))
         @@ ("__repr__" :> Slot("object", "__repr__"))
         @@ ("__str__" :> Slot("object", "__str__"))
         @@ ("__doc__" :> Val(101))
      [] cls = "int" ->
            ("__new__" :> Slot("int", "__new__"))
         @@ ("__getattribute__" :> Slot("int", "__getattribute__"))
         @@ ("__repr__" :> Slot("int", "__repr__"))
         @@ ("__doc__" :> Val(102))
      [] cls = "Base" ->
            ("a" :> Val(1)) @@ ("b" :> Val(2))
         @@ ("get_self" :> Func("Base", "get_self"))
         @@ ("get_base" :> Func("Base", "get_base"))
         @@ ("__str__" :> Func("Base", "__str__"))
         @@ ("__repr__" :> Func("Base", "__repr__"))
         @@ ClassStmt("Base")
      [] cls = "BaseProxy" ->
            ("b" :> Val(3)) @@ ("c" :> Val(4))
         @@ ("__init__" :> Func("BaseProxy", "__init__"))
         @@ ("get_self" :> Func("BaseProxy", "get_self"))
         @@ ("get_proxy" :> Func("BaseProxy", "get_proxy"))
         @@ ("__str__" :> Func("BaseProxy", "__str__"))
         @@ ClassStmt("BaseProxy")
      [] cls = "Sub" ->
            ("a" :> Val(10))
         @@ ("get_sub" :> Func("Sub", "get_sub"))
         @@ ClassStmt("Sub")
      [] cls = "X" ->
            ("a" :> Val(20))
         @@ ("get_x" :> Func("X", "get_x"))
         @@ ClassStmt("X")
      [] cls = "A" ->
            ("__getattr__" :> Func("A", "__getattr__"))
         @@ ("get_a" :> Func("A", "get_a"))
         @@ ClassStmt("A")
      [] cls = "B" ->
            ("get_b" :> Func("B", "get_b"))
         @@ ClassStmt("B")
      [] cls = "L" ->
            ("get_l" :> Func("L", "get_l"))
         @@ ClassStmt("L")
      [] cls = "R" ->
            ("__str__" :> Func("R", "__str__"))
         @@ ("get_r" :> Func("R", "get_r"))
         @@ ClassStmt("R")]

\* cls.__dict__
class__dict__(cls) == Declared[cls]

\* IGNORE_WRAPPED_METHODS
IGNORE_WRAPPED_METHODS ==
    {"__new__", "__init__", "__getattr__", "__setattr__", "__delattr__",
     "__getattribute__"}

(***************************************************************************)
(* Sequence helpers                                                        *)
(***************************************************************************)
reversed(s) == [i \in 1..Len(s) |-> s[Len(s) + 1 - i]]

Range(s) == {s[i] : i \in 1..Len(s)}

Min(a, b) == IF a <= b THEN a ELSE b

\* zip(left, right): as long as the shorter of the two.
zip(left, right) == [i \in 1..Min(Len(left), Len(right)) |-> <<left[i], right[i]>>]

(***************************************************************************)
(* Member resolution                                                       *)
(***************************************************************************)
\* _mro_common(left, right)
_mro_common(left, right) ==
    LET left_mro == reversed(mro(left))
        right_mro == reversed(mro(right))
        same == SelectSeq(zip(left_mro, right_mro), LAMBDA z : z[1] = z[2])
        result == [i \in 1..Len(same) |-> same[i][1]]
    IN  reversed(result)

\* _resolve_proxy_members(proxy_class, common)
_resolve_proxy_members(proxy, common) ==
    UNION {DOMAIN class__dict__(base) : base \in Range(mro(proxy)) \ Range(common)}

\* The loop of _resolve_wrapped_members over the first k classes of
\* reversed(wrapped_class.__mro__): a later class overwrites an earlier one.
RECURSIVE resolve_loop(_, _, _)
resolve_loop(bases, base_methods, k) ==
    IF k = 0 THEN << >>
    ELSE LET resolution == resolve_loop(bases, base_methods, k - 1)
             base == bases[k]
             names == DOMAIN class__dict__(base) \ base_methods
         IN  [n \in names |-> base] @@ resolution

\* _resolve_wrapped_members(wrapped_class, base_methods)
_resolve_wrapped_members(wrapped, base_methods) ==
    LET bases == reversed(mro(wrapped))
    IN  resolve_loop(bases, base_methods, Len(bases))

\* _resolve_without_get(cls, name)
_resolve_without_get(cls, name) ==
    LET m == mro(cls)
        hits == {i \in 1..Len(m) : name \in DOMAIN class__dict__(m[i])}
    IN  IF hits = {} THEN Missing
        ELSE class__dict__(m[CHOOSE i \in hits : \A j \in hits : i <= j])[name]

(***************************************************************************)
(* Class synthesis                                                         *)
(***************************************************************************)
\* wrap_with's name=None, and its class_1=None.
NoName == "<None>"

\* _proxied_value(base, name, instances): the forwarding descriptor.
_proxied_value(base, name) == [kind |-> "proxied", cls |-> base, name |-> name, v |-> 0]

\* The __init__ that _create_raw_wrapper installs, and its __instance__ property.
wrapper__init__ == Func("<wrapper>", "__init__")
_instance_property == [kind |-> "property", cls |-> "<wrapper>", name |-> "__instance__", v |-> 0]

\* A forwarding that skips every name object declares, whichever ancestor of
\* the wrapped class declares it last.
forwarding_skip_object(wrapped, proxy) ==
    LET common == _mro_common(wrapped, proxy)
        base_methods == _resolve_proxy_members(proxy, common) \cup IGNORE_WRAPPED_METHODS
        resolution == _resolve_wrapped_members(wrapped, base_methods)
    IN  [n \in DOMAIN resolution \ DOMAIN class__dict__("object")
            |-> _proxied_value(resolution[n], n)]

\* The forwarding descriptors _create_raw_wrapper builds from the resolution.
forwarding(wrapped, proxy) ==
    LET common == _mro_common(wrapped, proxy)
        base_methods == _resolve_proxy_members(proxy, common) \cup IGNORE_WRAPPED_METHODS
        resolution == _resolve_wrapped_members(wrapped, base_methods)
    IN  [n \in DOMAIN resolution |-> _proxied_value(resolution[n], n)]

\* A members dictionary that leaves out members.update(proxy_class.__dict__).
members_without_proxy_dict(wrapped, proxy) ==
       ("__instance__" :> _instance_property)
    @@ ("__init__" :> wrapper__init__)
    @@ forwarding(wrapped, proxy)

\* The members dictionary _create_raw_wrapper hands to type().
members(wrapped, proxy) ==
       ("__instance__" :> _instance_property)
    @@ ("__init__" :> wrapper__init__)
    @@ class__dict__(proxy)
    @@ forwarding(wrapped, proxy)

\* _create_raw_wrapper(wrapped_class, proxy_class, name): the new type object,
\* type(name, (proxy_class,), members). Its __dict__ is members(wrapped, proxy)
\* until the caller changes the class.
_create_raw_wrapper(wrapped, proxy, name) ==
    [__name__ |-> IF name = NoName THEN <<proxy, "[", wrapped, "]">> ELSE <<name>>,
     wrapped_class |-> wrapped,
     proxy_class |-> proxy]

(***************************************************************************)
(* The factory and its cache                                               *)
(***************************************************************************)
Names == {NoName, "CustomName"}

InstanceVars == <<class_deleted, live, _wrapped_objects, _states, proxy_inited,
                  wrapped_attrs, outcome>>

\* A _wrap_with_raw that never consults the cache: it synthesizes on every call.
_wrap_with_raw_uncached(wrapped, proxy, name) ==
    LET key == <<wrapped, proxy, name>>
    IN  /\ PROXY_CACHE' = (key :> Len(types) + 1) @@ PROXY_CACHE
        /\ types' = Append(types, _create_raw_wrapper(wrapped, proxy, name))
        /\ calls' = Append(calls, [op |-> "wrap_with", key |-> key,
                                   result |-> Len(types) + 1])

\* _wrap_with_raw(wrapped_class, proxy_class, name); the caller logs the result.
_wrap_with_raw(wrapped, proxy, name) ==
    LET key == <<wrapped, proxy, name>>
        cache == IF key \notin DOMAIN PROXY_CACHE
                 THEN (key :> Len(types) + 1) @@ PROXY_CACHE
                 ELSE PROXY_CACHE
    IN  /\ PROXY_CACHE' = cache
        /\ types' = IF key \notin DOMAIN PROXY_CACHE
                    THEN Append(types, _create_raw_wrapper(wrapped, proxy, name))
                    ELSE types
        /\ calls' = Append(calls, [op |-> "wrap_with", key |-> key, result |-> cache[key]])

\* wrap_with(class_0, class_1=None, name=None)
wrap_with(class_0, class_1, name) ==
    /\ Len(calls) < MaxCalls
    /\ IF class_1 = NoName
       THEN _wrap_with_raw("object", class_0, name)
       ELSE _wrap_with_raw(class_0, class_1, name)
    /\ UNCHANGED <<wrapped_class, proxy_class>>
    /\ UNCHANGED InstanceVars

\* reset_proxy_cache()
reset_proxy_cache ==
    /\ Len(calls) < MaxCalls
    /\ PROXY_CACHE' = << >>
    /\ calls' = Append(calls, [op |-> "reset", key |-> <<"", "", "">>, result |-> 0])
    /\ UNCHANGED <<wrapped_class, proxy_class, types>>
    /\ UNCHANGED InstanceVars

\* The module as imported: an empty cache, no class synthesized yet.
InitFactory ==
    /\ wrapped_class \in Classes
    /\ proxy_class \in Classes
    /\ PROXY_CACHE = << >>
    /\ types = << >>
    /\ calls = << >>
    /\ class_deleted = {}
    /\ live = << >>
    /\ _wrapped_objects = << >>
    /\ _states = << >>
    /\ proxy_inited = {}
    /\ wrapped_attrs = << >>
    /\ outcome = "ok"

\* The caller wraps its two classes, in either calling form, or resets the cache.
NextFactory ==
    \/ \E name \in Names : wrap_with(wrapped_class, proxy_class, name)
    \/ \E name \in Names : wrap_with(proxy_class, NoName, name)
    \/ reset_proxy_cache

SpecFactory == InitFactory /\ [][NextFactory]_vars

(***************************************************************************)
(* Instances of one synthesized class                                      *)
(***************************************************************************)
\* The wrapped/proxy pairs whose synthesized class is exercised: the test's
\* pair, a proxy class that is itself an ancestor of the wrapped class, and
\* the multiple-inheritance pair.
InstPairs == {<<"Base", "BaseProxy">>, <<"Base", "object">>, <<"L", "R">>}

\* The objects a caller may hand to the constructor, and type(obj) of each.
WObjs == 1..5

type_of(obj) ==
    CASE obj = 1 -> "Base"
      [] obj = 2 -> "Sub"
      [] obj = 3 -> "L"
      [] obj = 4 -> "L"
      [] obj = 5 -> "int"

\* isinstance(obj, cls)
isinstance(obj, cls) == cls \in Range(mro(type_of(obj)))

\* id() of a proxy instance; id(None) is none of them.
Ids == 1..MaxIds
IdNone == 0

\* The name and values attribute writes and deletes on instances are exercised
\* with: a plain value and a function; the names deleted on the class: one
\* only the wrapped class declares, one the common ancestry declares too.
SetNames == {"a"}
OpValues == {Val(5), Func("", "f")}
ClassDelNames == {"a", "__repr__"}

\* Every attribute name of the class universe.
AllNames == UNION {DOMAIN class__dict__(c) : c \in Classes} \cup {"__instance__"}

FactoryVars == <<wrapped_class, proxy_class, PROXY_CACHE, types, calls>>

Ok(val, self) == [ok |-> TRUE, val |-> val, self |-> self]
AttributeError == [ok |-> FALSE, val |-> Missing, self |-> None]

\* hasattr(value, "__get__")
has__get__(value) == value.kind \in {"func", "slot", "property", "proxied"}

\* _instance_wrapper.get_state(proxy): the table once the call has returned.
get_state(instance) ==
    IF instance \in DOMAIN _states THEN _states ELSE (instance :> << >>) @@ _states

\* _instance_wrapper.get_instance(proxy)
get_instance(instance) == _wrapped_objects[instance]

\* _instance_wrapper.set_instance(proxy, instance): the table afterwards.
set_instance(proxy, inner) == (proxy :> inner) @@ _wrapped_objects

\* A __get__ that never swaps the proxy instance for the wrapped one.
__get__without_rebind(acc, instance) ==
    LET state == get_state(instance)[instance]
        result == IF acc.name \in DOMAIN state THEN state[acc.name]
                  ELSE class__dict__(acc.cls)[acc.name]
        target == IF instance = IdNone THEN None ELSE Obj("proxy", instance)
    IN  IF result = _deleted THEN AttributeError
        ELSE IF has__get__(result) THEN Ok(result, target)
        ELSE Ok(result, None)

\* _proxied_value.__get__(instance, owner): what the read returns or raises.
\* instance is an id, or IdNone for a read on the class.
__get__(acc, instance) ==
    LET state == get_state(instance)[instance]
        in_state == acc.name \in DOMAIN state
        result == IF in_state THEN state[acc.name]
                  ELSE class__dict__(acc.cls)[acc.name]
        target == CASE instance = IdNone -> None
                    [] in_state -> Obj("proxy", instance)
                    [] OTHER -> Obj("wrapped", get_instance(instance))
    IN  IF result = _deleted THEN AttributeError
        ELSE IF has__get__(result) THEN Ok(result, target)
        ELSE Ok(result, None)

\* _proxied_value.__set__(instance, value): the _states table afterwards.
__set__(acc, instance, value) ==
    [get_state(instance) EXCEPT ![instance] = (acc.name :> value) @@ @]

\* A __delete__ that removes the override entry instead of storing _deleted.
__delete__pops(acc, instance) ==
    LET table == get_state(instance)
    IN  [table EXCEPT ![instance] =
            [n \in DOMAIN table[instance] \ {acc.name} |-> table[instance][n]]]

\* _proxied_value.__delete__(instance): the _states table afterwards.
__delete__(acc, instance) ==
    [get_state(instance) EXCEPT ![instance] = (acc.name :> _deleted) @@ @]

\* _resolve_without_get for every class and name.
Inherited == [cls \in Classes, n \in AllNames |-> _resolve_without_get(cls, n)]

\* The members dictionary of every pair of classes.
Members == [wrapped \in Classes, proxy \in Classes |-> members(wrapped, proxy)]

\* __dict__ of the synthesized class under test: the members it was created
\* with, less the names deleted from it since.
type_dict ==
    LET created == Members[wrapped_class, proxy_class]
    IN  [n \in DOMAIN created \ class_deleted |-> created[n]]

\* Attribute lookup along the synthesized class's __mro__: the class itself,
\* then proxy_class.__mro__.
type_lookup(n) ==
    IF n \in DOMAIN Members[wrapped_class, proxy_class] \ class_deleted
    THEN Members[wrapped_class, proxy_class][n]
    ELSE Inherited[proxy_class, n]

\* What reading attribute n of proxy instance i returns or raises.
getattr_result(i, n) ==
    LET attr == type_lookup(n)
    IN  CASE attr = Missing -> AttributeError
          [] attr.kind = "proxied" -> __get__(attr, i)
          [] attr.kind = "property" -> Ok(Obj("wrapped", get_instance(i)), None)
          [] attr.kind \in {"func", "slot"} -> Ok(attr, Obj("proxy", i))
          [] OTHER -> Ok(attr, None)

\* What reading attribute n of the synthesized class returns or raises.
class_getattr_result(n) ==
    LET attr == type_lookup(n)
    IN  CASE attr = Missing -> AttributeError
          [] attr.kind = "proxied" -> __get__(attr, IdNone)
          [] OTHER -> Ok(attr, None)

\* instance(obj)
instance(i) == getattr_result(i, "__instance__").val

\* An __init__ that records the association before it checks the type.
proxy__init__records_first(i, inner) ==
    /\ i \in Ids \ DOMAIN live
    /\ _wrapped_objects' = set_instance(i, inner)
    /\ IF ~isinstance(inner, wrapped_class)
       THEN /\ outcome' = "TypeError"
            /\ UNCHANGED <<live, proxy_inited>>
       ELSE /\ proxy_inited' = proxy_inited \cup {i}
            /\ live' = (i :> inner) @@ live
            /\ outcome' = "ok"
    /\ UNCHANGED <<class_deleted, _states, wrapped_attrs>>
    /\ UNCHANGED FactoryVars

\* The __init__ installed by _create_raw_wrapper, run on a new object whose
\* id() is i: any id no live proxy instance holds.
proxy__init__(i, inner) ==
    /\ i \in Ids \ DOMAIN live
    /\ IF ~isinstance(inner, wrapped_class)
       THEN /\ outcome' = "TypeError"
            /\ UNCHANGED <<_wrapped_objects, live, proxy_inited>>
       ELSE /\ _wrapped_objects' = set_instance(i, inner)
            /\ proxy_inited' = proxy_inited \cup {i}
            /\ live' = (i :> inner) @@ live
            /\ outcome' = "ok"
    /\ UNCHANGED <<class_deleted, _states, wrapped_attrs>>
    /\ UNCHANGED FactoryVars

\* The last reference to proxy instance i goes away. No hook of the module
\* runs: del_instance is never called.
release(i) ==
    /\ i \in DOMAIN live
    /\ live' = [j \in DOMAIN live \ {i} |-> live[j]]
    /\ proxy_inited' = proxy_inited \ {i}
    /\ outcome' = "ok"
    /\ UNCHANGED <<class_deleted, _wrapped_objects, _states, wrapped_attrs>>
    /\ UNCHANGED FactoryVars

\* The names attribute reads are exercised with.
ReadNames == ClassDelNames

\* value = proxy.n
getattr(i, n) ==
    /\ i \in DOMAIN live
    /\ _states' = IF type_lookup(n).kind = "proxied" THEN get_state(i) ELSE _states
    /\ outcome' = IF getattr_result(i, n).ok THEN "ok" ELSE "AttributeError"
    /\ UNCHANGED <<class_deleted, live, _wrapped_objects, proxy_inited, wrapped_attrs>>
    /\ UNCHANGED FactoryVars

\* proxy.n = value, for a name the class holds a forwarding descriptor for
setattr(i, n, value) ==
    /\ i \in DOMAIN live
    /\ type_lookup(n).kind = "proxied"
    /\ _states' = __set__(type_lookup(n), i, value)
    /\ outcome' = "ok"
    /\ UNCHANGED <<class_deleted, live, _wrapped_objects, proxy_inited, wrapped_attrs>>
    /\ UNCHANGED FactoryVars

\* del proxy.n, for a name the class holds a forwarding descriptor for
delattr(i, n) ==
    /\ i \in DOMAIN live
    /\ type_lookup(n).kind = "proxied"
    /\ _states' = __delete__(type_lookup(n), i)
    /\ outcome' = "ok"
    /\ UNCHANGED <<class_deleted, live, _wrapped_objects, proxy_inited, wrapped_attrs>>
    /\ UNCHANGED FactoryVars

\* value = cls.n on the synthesized class
class_getattr(n) ==
    /\ _states' = IF type_lookup(n).kind = "proxied" THEN get_state(IdNone) ELSE _states
    /\ outcome' = IF class_getattr_result(n).ok THEN "ok" ELSE "AttributeError"
    /\ UNCHANGED <<class_deleted, live, _wrapped_objects, proxy_inited, wrapped_attrs>>
    /\ UNCHANGED FactoryVars

\* del cls.n on the synthesized class: the entry leaves the class's __dict__.
class_delattr(n) ==
    /\ IF n \in DOMAIN type_dict
       THEN /\ class_deleted' = class_deleted \cup {n}
            /\ outcome' = "ok"
       ELSE /\ outcome' = "AttributeError"
            /\ UNCHANGED class_deleted
    /\ UNCHANGED <<live, _wrapped_objects, _states, proxy_inited, wrapped_attrs>>
    /\ UNCHANGED FactoryVars

\* The state after proxy_class = wrap_with(wrapped_class, proxy_class), as in
\* the test's setUp.
Init ==
    /\ \E pair \in InstPairs : wrapped_class = pair[1] /\ proxy_class = pair[2]
    /\ PROXY_CACHE = (<<wrapped_class, proxy_class, NoName>> :> 1)
    /\ types = <<_create_raw_wrapper(wrapped_class, proxy_class, NoName)>>
    /\ calls = <<[op |-> "wrap_with", key |-> <<wrapped_class, proxy_class, NoName>>,
                  result |-> 1]>>
    /\ class_deleted = {}
    /\ live = << >>
    /\ _wrapped_objects = << >>
    /\ _states = << >>
    /\ proxy_inited = {}
    /\ wrapped_attrs = [w \in WObjs |-> << >>]
    /\ outcome = "ok"

\* The instances of the class: built, read, written, deleted from, released.
Next ==
    \/ \E i \in Ids, inner \in WObjs : proxy__init__(i, inner)
    \/ \E i \in Ids : release(i)
    \/ \E i \in Ids, n \in ReadNames : getattr(i, n)
    \/ \E i \in Ids, n \in SetNames, value \in OpValues : setattr(i, n, value)
    \/ \E i \in Ids, n \in SetNames : delattr(i, n)

Spec == Init /\ [][Next]_vars

\* The class itself read and deleted from, next to the same operations on the
\* instance at one id.
ClassIds == {CHOOSE i \in Ids : TRUE}

NextClass ==
    \/ \E i \in ClassIds, inner \in WObjs : proxy__init__(i, inner)
    \/ \E i \in ClassIds : release(i)
    \/ \E i \in ClassIds, n \in ReadNames : getattr(i, n)
    \/ \E i \in ClassIds, n \in SetNames, value \in OpValues : setattr(i, n, value)
    \/ \E i \in ClassIds, n \in SetNames : delattr(i, n)
    \/ \E n \in ReadNames : class_getattr(n)
    \/ \E n \in ClassDelNames : class_delattr(n)

SpecClass == Init /\ [][NextClass]_vars

(***************************************************************************)
(* Claims about the factory, checked under SpecFactory                     *)
(***************************************************************************)
WrapCalls == {i \in 1..Len(calls) : calls[i].op = "wrap_with"}

ResetBetween(i, j) == \E k \in (i + 1)..(j - 1) : calls[k].op = "reset"

\* C1: two wrap_with calls with the same (wrapped, proxy, name) triple return
\* the identical type object when no reset_proxy_cache happened between them,
\* and type objects that are not identical when one did.
C1_CachingIdempotence ==
    \A i \in WrapCalls, j \in WrapCalls :
        (i < j /\ calls[i].key = calls[j].key)
            => IF ResetBetween(i, j)
               THEN calls[i].result # calls[j].result
               ELSE calls[i].result = calls[j].result

\* C1 witness: one triple wrapped twice in a row, and wrapped again after a reset.
C1_Witness ==
    \E i \in WrapCalls, j \in WrapCalls, k \in WrapCalls :
        /\ i < j /\ j < k
        /\ calls[i].key = calls[j].key /\ calls[j].key = calls[k].key
        /\ ~ResetBetween(i, j) /\ ResetBetween(j, k)
        /\ calls[i].result = calls[j].result
        /\ calls[j].result # calls[k].result

\* The longest common prefix of two sequences.
LongestCommonPrefix(s, t) ==
    LET agree == {k \in 0..Min(Len(s), Len(t)) : \A i \in 1..k : s[i] = t[i]}
        n == CHOOSE k \in agree : \A m \in agree : m <= k
    IN  SubSeq(s, 1, n)

\* The common ancestry as the specification defines it: the shared prefix of
\* the two root-down ancestor chains.
CommonPrefix(wrapped, proxy) ==
    LongestCommonPrefix(reversed(mro(wrapped)), reversed(mro(proxy)))

\* The names the ancestors of cls in the set bases declare.
DeclaredBy(bases) == UNION {DOMAIN class__dict__(base) : base \in bases}

\* C8: for every pair of types wrap_with was called with, _mro_common is
\* exactly the longest common prefix of the two root-down ancestor chains, so
\* every proxy ancestor outside that prefix counts as proxy-owned.
C8_MroCommonIsPrefix ==
    \A k \in 1..Len(types) :
        LET wrapped == types[k].wrapped_class
            proxy == types[k].proxy_class
            common == _mro_common(wrapped, proxy)
            prefix == CommonPrefix(wrapped, proxy)
        IN  /\ reversed(common) = prefix
            /\ _resolve_proxy_members(proxy, common)
                   = DeclaredBy(Range(mro(proxy)) \ Range(prefix))

\* The most-derived ancestor of cls that declares name n.
MostDerived(cls, n) ==
    LET m == mro(cls)
        hits == {i \in 1..Len(m) : n \in DOMAIN class__dict__(m[i])}
    IN  m[CHOOSE i \in hits : \A j \in hits : i <= j]

\* C9: the names that get a forwarding accessor are exactly the names the
\* wrapped type's ancestors declare, minus those declared by the proxy type's
\* ancestors outside the common ancestry (the shared prefix), minus the six
\* special names; each accessor refers to the most-derived declaring ancestor.
C9_ForwardedNames ==
    \A k \in 1..Len(types) :
        LET wrapped == types[k].wrapped_class
            proxy == types[k].proxy_class
            prefix == CommonPrefix(wrapped, proxy)
            expected == (DeclaredBy(Range(mro(wrapped)))
                            \ DeclaredBy(Range(mro(proxy)) \ Range(prefix)))
                            \ IGNORE_WRAPPED_METHODS
            accessors == forwarding(wrapped, proxy)
        IN  /\ DOMAIN accessors = expected
            /\ \A n \in DOMAIN accessors :
                   accessors[n] = _proxied_value(MostDerived(wrapped, n), n)

(***************************************************************************)
(* Claims about the synthesized class and its instances, checked under     *)
(* Spec and SpecClass                                                      *)
(***************************************************************************)
\* The class holds a forwarding descriptor under name n.
Forwarded(n) == type_lookup(n).kind = "proxied"

\* Instance i has an entry for n in its override dictionary.
Overridden(i, n) == i \in DOMAIN _states /\ n \in DOMAIN _states[i]

IsMethod(value) == value.kind \in {"func", "slot"}

\* What a read yields for a declaration found on a class and bound to target.
Bound(decl, target) == IF has__get__(decl) THEN Ok(decl, target) ELSE Ok(decl, None)

\* The names the proxy class declares itself that the wrapped class's
\* ancestor chain declares too.
SharedDirectNames ==
    DOMAIN class__dict__(proxy_class) \cap DeclaredBy(Range(mro(wrapped_class)))

\* The names the constructor's wrapper installs over everything else.
WrapperNames == {"__init__", "__instance__"}

C3_SetShadowsOnInstanceOnly ==
    [][\A i \in Ids, n \in SetNames, value \in OpValues :
          setattr(i, n, value)
              => /\ getattr_result(i, n)' = Ok(value, None)
                 /\ UNCHANGED wrapped_attrs
                 /\ \A j \in DOMAIN live \ {i} :
                        live[j] # live[i]
                            => getattr_result(j, n)' = getattr_result(j, n)]_vars

\* C4 as stated: after a forwarded attribute is deleted on an instance, or on
\* the class, the next read of it there raises AttributeError.
C4_DeleteThenReadFails_AsStated ==
    [][/\ \A i \in Ids, n \in SetNames :
              delattr(i, n) => ~getattr_result(i, n)'.ok
       /\ \A n \in ClassDelNames :
              (Forwarded(n) /\ class_delattr(n)) => ~class_getattr_result(n)'.ok]_vars

\* C4 (amended): on an instance the next read raises AttributeError; on the
\* class it raises AttributeError exactly when no ancestor of the proxy type
\* declares the name, and otherwise yields that ancestor's declaration.
C4_DeleteThenReadFails ==
    [][/\ \A i \in Ids, n \in SetNames :
              delattr(i, n) => ~getattr_result(i, n)'.ok
       /\ \A n \in ClassDelNames :
              (Forwarded(n) /\ class_delattr(n))
                  => class_getattr_result(n)' =
                         IF Inherited[proxy_class, n] = Missing THEN AttributeError
                         ELSE Ok(Inherited[proxy_class, n], None)]_vars

\* C4 witness: an instance holds the tombstone for a, both a and __repr__ have
\* been deleted on the class, reading a there fails and reading __repr__ does not.
C4_Witness ==
    /\ \E i \in DOMAIN live : Overridden(i, "a") /\ _states[i]["a"] = _deleted
    /\ class_deleted = {"a", "__repr__"}
    /\ ~class_getattr_result("a").ok
    /\ class_getattr_result("__repr__").ok

\* C5: constructing with an object that is no instance of the wrapped type
\* raises TypeError and changes nothing: no association, no override entry,
\* the proxy type's constructor not run, no instance.
C5_TypeCheckBeforeAnything ==
    [][\A i \in Ids, inner \in WObjs :
          (proxy__init__(i, inner) /\ ~isinstance(inner, wrapped_class))
              => /\ outcome' = "TypeError"
                 /\ UNCHANGED <<_wrapped_objects, _states, proxy_inited, live>>]_vars

\* C5 witness: a construction has just failed with TypeError.
C5_Witness == outcome = "TypeError"

\* C6: on an instance built from object w, instance(p) is w, a forwarded and
\* not overridden method reads as bound to w, and a method the proxy type
\* declares reads as bound to p.
C6_MethodBinding ==
    \A i \in DOMAIN live :
        /\ instance(i) = Obj("wrapped", live[i])
        /\ \A n \in DOMAIN Members[wrapped_class, proxy_class] :
               /\ (Forwarded(n) /\ ~Overridden(i, n)
                       /\ IsMethod(Inherited[wrapped_class, n]))
                      => getattr_result(i, n)
                             = Ok(Inherited[wrapped_class, n], Obj("wrapped", live[i]))
               /\ (n \in DOMAIN class__dict__(proxy_class)
                       /\ IsMethod(class__dict__(proxy_class)[n]))
                      => /\ getattr_result(i, n).ok
                         /\ getattr_result(i, n).self = Obj("proxy", i)

\* C6 witness: the test's instance, get_base bound to the wrapped object and
\* get_proxy bound to the proxy.
C6_Witness ==
    \E i \in DOMAIN live :
        /\ getattr_result(i, "get_base")
               = Ok(Func("Base", "get_base"), Obj("wrapped", live[i]))
        /\ getattr_result(i, "get_proxy")
               = Ok(Func("BaseProxy", "get_proxy"), Obj("proxy", i))

\* The names each proxy class owns against each wrapped class: those it
\* declares itself and those _resolve_proxy_members collects.
ProxyOwned ==
    [wrapped \in Classes, proxy \in Classes |->
        DOMAIN class__dict__(proxy)
            \cup _resolve_proxy_members(proxy, _mro_common(wrapped, proxy))]

Conversions == {"__str__", "__repr__"}

\* C7 as stated: str() and repr() of an instance are governed by the proxy
\* type's own definition or, when it has none, by object's default.
C7_ConversionsFromProxy_AsStated ==
    \A i \in DOMAIN live, n \in Conversions :
        (n \notin class_deleted /\ ~Overridden(i, n))
            => getattr_result(i, n) = Ok(Inherited[proxy_class, n], Obj("proxy", i))

\* C7 (amended): they are governed by the proxy type's definition when the
\* proxy type declares the method itself or inherits it from an ancestor
\* outside the common ancestry; otherwise by the wrapped type's most-derived
\* definition (object's default when it has none), applied to the wrapped
\* instance.
C7_Conversions ==
    \A i \in DOMAIN live, n \in Conversions :
        (n \notin class_deleted /\ ~Overridden(i, n))
            => getattr_result(i, n) =
                   IF n \in ProxyOwned[wrapped_class, proxy_class]
                   THEN Ok(Inherited[proxy_class, n], Obj("proxy", i))
                   ELSE Ok(Inherited[wrapped_class, n], Obj("wrapped", live[i]))

\* C7 witness: the test's instance, str() from BaseProxy on the proxy and
\* repr() from Base on the wrapped object.
C7_Witness ==
    \E i \in DOMAIN live :
        /\ getattr_result(i, "__str__")
               = Ok(Func("BaseProxy", "__str__"), Obj("proxy", i))
        /\ getattr_result(i, "__repr__")
               = Ok(Func("Base", "__repr__"), Obj("wrapped", live[i]))

\* C10: a newly constructed instance has no overrides: every forwarded name
\* reads as the wrapped value, whatever happened to earlier instances.
C10_NewInstanceHasNoOverrides ==
    [][\A i \in Ids, inner \in WObjs :
          (proxy__init__(i, inner) /\ isinstance(inner, wrapped_class))
              => \A n \in DOMAIN Members[wrapped_class, proxy_class] :
                     Forwarded(n)
                         => getattr_result(i, n)'
                                = Bound(Inherited[wrapped_class, n],
                                        Obj("wrapped", inner))]_vars

====
